---- MODULE Spec2Model ----
(***************************************************************************)
(* Model of src/app.py: a Flask product catalog backed by two SQLite       *)
(* tables (Users_Table, Products), a signed-cookie session per client and  *)
(* nine routes.  Strings are sequences of one-character strings, so that   *)
(* str.strip(), str.lower(), float() and int() are computed, not assumed.  *)
(* A request that runs more than one SQL statement is split at the         *)
(* statement boundary, where requests of other clients may interleave.     *)
(***************************************************************************)
EXTENDS Integers, Sequences, FiniteSets, TLC

VARIABLES users, userSeq, products, productSeq, clock, session, req, resp

vars == <<users, userSeq, products, productSeq, clock, session, req, resp>>

-----------------------------------------------------------------------------
(* Bounds of the model *)

MaxClock == 3
MaxProducts == 2

Clients == {"c1", "c2"}
ProductIds == 1 .. MaxProducts

-----------------------------------------------------------------------------
(* Strings *)

admin_email == <<"a", "d", "m", "i", "n", "@", "e", "x", "a", "m", "p", "l", "e", ".", "c", "o", "m">>
admin_pwd == <<"a", "d", "m", "i", "n", "1", "2", "3">>

IsSpace(c) == c \in {" ", "\t", "\n"}

RECURSIVE lstrip(_)
lstrip(s) == IF s # <<>> /\ IsSpace(Head(s)) THEN lstrip(Tail(s)) ELSE s

RECURSIVE rstrip(_)
rstrip(s) ==
    IF s # <<>> /\ IsSpace(s[Len(s)]) THEN rstrip(SubSeq(s, 1, Len(s) - 1)) ELSE s

strip(s) == rstrip(lstrip(s))

LowerChar(c) ==
    CASE c = "A" -> "a" [] c = "D" -> "d" [] c = "M" -> "m" [] c = "I" -> "i"
      [] c = "N" -> "n" [] c = "E" -> "e" [] c = "X" -> "x" [] c = "P" -> "p"
      [] c = "L" -> "l" [] c = "C" -> "c" [] c = "O" -> "o" [] c = "U" -> "u"
      [] c = "W" -> "w" [] OTHER -> c

lower(s) == [i \in 1 .. Len(s) |-> LowerChar(s[i])]

(* request.form.get("email", "").strip().lower() *)
normalize_email_no_lower(e) == strip(e)
normalize_email(e) == lower(strip(e))

(* request.form.get("password", "").strip() *)
normalize_password(p) == strip(p)

(* Inputs of the forms.  Spec explores the catalog with few credentials,    *)
(* SpecAuth explores registration and login with many.                      *)
Emails == { admin_email, <<"U", " ">> }
Passwords == { admin_pwd, <<"p">> }
NewPasswords == { <<"p">> }
Salts == { "s1" }

AuthEmails ==
    { admin_email,
      <<" ", "A", "d", "m", "i", "n", "@", "E", "x", "a", "m", "p", "l", "e", ".", "c", "o", "m">>,
      <<"u">>, <<"U", " ">>, <<" ">> }
AuthNewPasswords == { admin_pwd, <<"p", " ">>, <<"P">>, <<" ">> }
AuthPasswords == { admin_pwd, admin_pwd \o <<" ">>, <<"p">>, <<" ", "p">>, <<"P">>, <<>> }
AuthSalts == { "s1", "s2" }

Form(name, price, stock) ==
    [name |-> name, description |-> <<"d", " ">>, price |-> price, stock |-> stock]

(* One form of each outcome of the validation.  The valid form of an edit  *)
(* differs from the valid form of an add in every field, so that an edit   *)
(* is seen in the row.                                                      *)
BadForms ==
    { Form(<<" ">>, <<"9", ".", "5">>, <<"5">>),
      Form(<<"W">>, <<"x">>, <<"5">>),
      Form(<<"W">>, <<"9", ".", "5">>, <<"1", ".", "5">>) }
AddForms == { Form(<<"W">>, <<"-", "1">>, <<"-", "2">>) } \cup BadForms
EditForms == { Form(<<" ", "V">>, <<"9", ".", "5">>, <<" ", "5">>) } \cup BadForms

-----------------------------------------------------------------------------
(* float() and int() of an already stripped string, for strings over       *)
(* signs, decimal digits, the point and letters (no exponent, underscore,   *)
(* "inf" or "nan" is among the inputs explored).                            *)

IsDigit(c) == c \in {"0", "1", "2", "3", "4", "5", "6", "7", "8", "9"}

DigitVal(c) ==
    CASE c = "0" -> 0 [] c = "1" -> 1 [] c = "2" -> 2 [] c = "3" -> 3 [] c = "4" -> 4
      [] c = "5" -> 5 [] c = "6" -> 6 [] c = "7" -> 7 [] c = "8" -> 8 [] c = "9" -> 9

AllDigits(s) == \A i \in 1 .. Len(s) : IsDigit(s[i])

RECURSIVE DigitsVal(_)
DigitsVal(s) ==
    IF s = <<>> THEN 0
    ELSE DigitsVal(SubSeq(s, 1, Len(s) - 1)) * 10 + DigitVal(s[Len(s)])

ValueError == [ok |-> FALSE, val |-> 0]
Parsed(v) == [ok |-> TRUE, val |-> v]

Unsigned(s) == IF s # <<>> /\ s[1] \in {"+", "-"} THEN Tail(s) ELSE s
Sign(s) == IF s # <<>> /\ s[1] = "-" THEN -1 ELSE 1

(* int(stock): an optional sign and at least one decimal digit *)
int(s) ==
    LET b == Unsigned(s)
    IN  IF b # <<>> /\ AllDigits(b) THEN Parsed(Sign(s) * DigitsVal(b)) ELSE ValueError

(* float(price): an optional sign, digits with at most one point and at     *)
(* least one digit.  The value is kept in hundredths (9.5 is 950).          *)
PointAt(b) == IF \E i \in 1 .. Len(b) : b[i] = "."
              THEN CHOOSE i \in 1 .. Len(b) : b[i] = "." /\ \A j \in 1 .. i - 1 : b[j] # "."
              ELSE 0

Hundredths(f) ==
    IF Len(f) = 0 THEN 0
    ELSE IF Len(f) = 1 THEN DigitVal(f[1]) * 10
    ELSE DigitVal(f[1]) * 10 + DigitVal(f[2])

float(s) ==
    LET b == Unsigned(s)
        p == PointAt(b)
        ip == IF p = 0 THEN b ELSE SubSeq(b, 1, p - 1)
        fp == IF p = 0 THEN <<>> ELSE SubSeq(b, p + 1, Len(b))
    IN  IF AllDigits(ip) /\ AllDigits(fp) /\ (ip # <<>> \/ fp # <<>>)
        THEN Parsed(Sign(s) * (DigitsVal(ip) * 100 + Hundredths(fp)))
        ELSE ValueError

-----------------------------------------------------------------------------
(* werkzeug.security: a salted one-way hash *)

Hash(salt, password) == [salt |-> salt, digest |-> password]

check_password_hash(pwhash, password) == pwhash = Hash(pwhash.salt, password)

-----------------------------------------------------------------------------
(* Responses *)

(* resp is the response of the request that ended last, with its client *)
Redirect(to, notice) == [kind |-> "redirect", to |-> to, flash |-> notice]
Render(template) == [kind |-> "render", to |-> template, flash |-> ""]
Unhandled(exception) == [kind |-> "error", to |-> exception, flash |-> ""]
NoResponse == [kind |-> "none", to |-> "", flash |-> ""]

Unauthorized == Redirect("login", "Please log in to continue.")
Forbidden == Redirect("products", "Admin access required.")
ValidationErrorRegister == Redirect("register", "Please provide both email and password.")
DuplicateEmail == Redirect("login", "Email already registered. Please login.")
Registered == Redirect("login", "Registration successful. Please log in.")
InvalidCredentials == Redirect("login", "Invalid email or password.")
Welcome == Redirect("products", "Welcome back, {email}!")
LoggedOut == Redirect("login", "You have been logged out.")
NotFound == Redirect("products", "Product not found.")
ProductAdded == Redirect("products", "Product added successfully.")
ProductUpdated == Redirect("products", "Product updated.")
ProductDeleted == Redirect("products", "Product deleted.")
ValidationError(to) == Redirect(to, "Please fill required fields (name, price, stock).")
TypeError(to) == Redirect(to, "Price must be a number and stock must be an integer.")
Pass == [kind |-> "pass", to |-> "", flash |-> ""]
Pending == [kind |-> "pending", to |-> "", flash |-> ""]

Sent(c, route, r) ==
    [client |-> c, route |-> route, kind |-> r.kind, to |-> r.to, flash |-> r.flash]

-----------------------------------------------------------------------------
(* Session (the client's cookie): a dict with keys "user" and "role".  The *)
(* notice of flash() travels with the response and is kept in resp.         *)

EmptySession == [k \in {} |-> ""]
NewSession(user) == [k \in {"user", "role"} |-> IF k = "user" THEN user.email ELSE user.role]
session_get(s, key) == IF key \in DOMAIN s THEN s[key] ELSE "None"
IsAdmin(s) == session_get(s, "role") = "admin"

Idle == [route |-> "idle"]

-----------------------------------------------------------------------------
(* Users_Table *)

query_user_by_email(email) == {u \in users : u.email = email}

(* The role of a row that register inserts *)
RegisteredRoleFromAdmin == "admin"
RegisteredRole == "user"

InsertUser_no_unique(table, seq, email, hashed, role) ==
    [ok |-> TRUE,
     table |-> table \cup {[id |-> seq + 1, email |-> email, password |-> hashed, role |-> role]},
     seq |-> seq + 1]

(* INSERT INTO Users_Table: email is UNIQUE, a second row with the same    *)
(* email raises sqlite3.IntegrityError and inserts nothing.                 *)
InsertUser(table, seq, email, hashed, role) ==
    IF \E u \in table : u.email = email
    THEN [ok |-> FALSE, table |-> table, seq |-> seq]
    ELSE [ok |-> TRUE,
          table |-> table \cup {[id |-> seq + 1, email |-> email, password |-> hashed, role |-> role]},
          seq |-> seq + 1]

(* init_db(): CREATE TABLE IF NOT EXISTS, then the seed of the             *)
(* administrator; the IntegrityError of a repeated seed is swallowed.       *)
SeedAdmin(table, seq, salt) ==
    InsertUser(table, seq, admin_email, Hash(salt, admin_pwd), "admin")

-----------------------------------------------------------------------------
(* The decorators: login_required is the outer one and runs first *)

login_required(s) == IF "user" \notin DOMAIN s THEN Unauthorized ELSE Pass

admin_required_skipped(s) == Pass
admin_required(s) == IF session_get(s, "role") # "admin" THEN Forbidden ELSE Pass

protected_role_first(s, adminOnly) ==
    IF adminOnly /\ admin_required(s) # Pass THEN admin_required(s)
    ELSE login_required(s)

AdminRoutes ==
    { "GET /products/add", "POST /products/add", "GET /products/edit/<id>",
      "POST /products/edit/<id>", "POST /products/delete/<id>" }
ProtectedRoutes == AdminRoutes \cup { "GET /products", "GET /products/<id>" }

protected(s, adminOnly) ==
    IF login_required(s) # Pass THEN login_required(s)
    ELSE IF adminOnly THEN admin_required(s)
    ELSE Pass

-----------------------------------------------------------------------------
InitWith(S) ==
    /\ \E salt \in S :
         LET seeded == SeedAdmin({}, 0, salt)
         IN  users = seeded.table /\ userSeq = seeded.seq
    /\ products = [id \in {} |-> 0]
    /\ productSeq = 0
    /\ clock = 0
    /\ session = [c \in Clients |-> EmptySession]
    /\ req = [c \in Clients |-> Idle]
    /\ resp = Sent("", "", NoResponse)

(* A handler that answers at once and touches neither table *)
Answer(c, route, r) ==
    /\ resp' = Sent(c, route, r)
    /\ UNCHANGED <<users, userSeq, products, productSeq, clock, session, req>>

init_db(salt) ==
    /\ LET seeded == SeedAdmin(users, userSeq, salt)
       IN  users' = seeded.table /\ userSeq' = seeded.seq
    /\ UNCHANGED <<products, productSeq, clock, session, req, resp>>

root(c) ==
    /\ req[c] = Idle
    /\ Answer(c, "GET /", IF "user" \in DOMAIN session[c]
                 THEN Redirect("products", "") ELSE Redirect("login", ""))

-----------------------------------------------------------------------------
(* /register *)

register_get(c) ==
    /\ req[c] = Idle
    /\ Answer(c, "GET /register", IF "user" \in DOMAIN session[c]
                 THEN Redirect("products", "") ELSE Render("register.html"))

(* POST /register up to and including the SELECT of query_user_by_email *)
register_post(c, e, p) ==
    LET email == normalize_email(e)
        password == normalize_password(p)
    IN  /\ req[c] = Idle
        /\ IF "user" \in DOMAIN session[c] THEN Answer(c, "POST /register", Redirect("products", ""))
           ELSE IF email = <<>> \/ password = <<>> THEN Answer(c, "POST /register", ValidationErrorRegister)
           ELSE IF query_user_by_email(email) # {} THEN Answer(c, "POST /register", DuplicateEmail)
           ELSE /\ req' = [req EXCEPT ![c] =
                             [route |-> "register", email |-> email, password |-> password]]
                /\ resp' = Sent(c, "POST /register", Pending)
                /\ UNCHANGED <<users, userSeq, products, productSeq, clock, session>>

(* generate_password_hash, the INSERT and the commit.  No handler catches  *)
(* the IntegrityError of the INSERT.                                        *)
register_insert(c, salt) ==
    /\ req[c].route = "register"
    /\   LET hashed == Hash(salt, req[c].password)
             ins == InsertUser(users, userSeq, req[c].email, hashed, RegisteredRole)
         IN  /\ users' = ins.table
             /\ userSeq' = ins.seq
             /\ resp' = Sent(c, "POST /register", IF ins.ok THEN Registered
                                   ELSE Unhandled("sqlite3.IntegrityError"))
    /\ req' = [req EXCEPT ![c] = Idle]
    /\ UNCHANGED <<products, productSeq, clock, session>>

-----------------------------------------------------------------------------
(* /login and /logout *)

login_get(c) ==
    /\ req[c] = Idle
    /\ Answer(c, "GET /login", IF "user" \in DOMAIN session[c]
                 THEN Redirect("products", "") ELSE Render("login.html"))

login_post(c, e, p) ==
    LET email == normalize_email(e)
        password == normalize_password(p)
        found == query_user_by_email(email)
        user == CHOOSE u \in found : TRUE
    IN  /\ req[c] = Idle
        /\ IF "user" \in DOMAIN session[c] THEN Answer(c, "POST /login", Redirect("products", ""))
           ELSE IF found = {} \/ ~check_password_hash(user.password, password)
           THEN Answer(c, "POST /login", InvalidCredentials)
           ELSE /\ session' = [session EXCEPT ![c] = NewSession(user)]
                /\ resp' = Sent(c, "POST /login", Welcome)
                /\ UNCHANGED <<users, userSeq, products, productSeq, clock, req>>

logout(c) ==
    /\ req[c] = Idle
    /\ session' = [session EXCEPT ![c] = EmptySession]
    /\ resp' = Sent(c, "GET /logout", LoggedOut)
    /\ UNCHANGED <<users, userSeq, products, productSeq, clock, req>>

-----------------------------------------------------------------------------
(* Products.  datetime.utcnow() is the variable clock: every read returns  *)
(* a value greater than all earlier reads.                                  *)

SelectProduct(table, id) == IF id \in DOMAIN table THEN {table[id]} ELSE {}

(* INSERT INTO Products: AUTOINCREMENT never reuses an id *)
InsertProduct(table, seq, name, description, price_f, stock_i, now) ==
    [id \in DOMAIN table \cup {seq + 1} |->
        IF id = seq + 1
        THEN [name |-> name, description |-> description, price |-> price_f,
              stock |-> stock_i, created_at |-> now, updated_at |-> now]
        ELSE table[id]]

(* UPDATE Products SET ... WHERE id=?: no row matches an absent id *)
UpdateProduct(table, id, name, description, price_f, stock_i, now) ==
    [i \in DOMAIN table |->
        IF i = id
        THEN [table[i] EXCEPT !.name = name, !.description = description,
                              !.price = price_f, !.stock = stock_i, !.updated_at = now]
        ELSE table[i]]

(* DELETE FROM Products WHERE id = ? *)
DeleteProduct_upto(table, id) == [i \in {j \in DOMAIN table : j > id} |-> table[i]]
DeleteProduct(table, id) == [i \in DOMAIN table \ {id} |-> table[i]]

(* The checks of the form shared by add_product and edit_product *)
Validate(form, back) ==
    LET name == strip(form.name)
        price == strip(form.price)
        stock == strip(form.stock)
    IN  IF name = <<>> \/ price = <<>> \/ stock = <<>> THEN ValidationError(back)
        ELSE IF ~float(price).ok \/ ~int(stock).ok THEN TypeError(back)
        ELSE Pass

products_list(c) ==
    /\ req[c] = Idle
    /\ Answer(c, "GET /products", IF protected(session[c], FALSE) # Pass
                 THEN protected(session[c], FALSE) ELSE Render("products.html"))

product_detail(c, id) ==
    /\ req[c] = Idle
    /\ Answer(c, "GET /products/<id>", IF protected(session[c], FALSE) # Pass THEN protected(session[c], FALSE)
                 ELSE IF SelectProduct(products, id) = {} THEN NotFound
                 ELSE Render("product_detail.html"))

add_product_get(c) ==
    /\ req[c] = Idle
    /\ Answer(c, "GET /products/add", IF protected(session[c], TRUE) # Pass
                 THEN protected(session[c], TRUE) ELSE Render("product_form.html"))

add_product_post(c, form) ==
    /\ req[c] = Idle
    /\ IF protected(session[c], TRUE) # Pass THEN Answer(c, "POST /products/add", protected(session[c], TRUE))
       ELSE IF Validate(form, "add_product") # Pass THEN Answer(c, "POST /products/add", Validate(form, "add_product"))
       ELSE /\ productSeq < MaxProducts
            /\ clock < MaxClock
            /\ clock' = clock + 1
            /\ products' = InsertProduct(products, productSeq, strip(form.name),
                                         strip(form.description), float(strip(form.price)).val,
                                         int(strip(form.stock)).val, clock + 1)
            /\ productSeq' = productSeq + 1
            /\ resp' = Sent(c, "POST /products/add", ProductAdded)
            /\ UNCHANGED <<users, userSeq, session, req>>

edit_product_get(c, id) ==
    /\ req[c] = Idle
    /\ Answer(c, "GET /products/edit/<id>", IF protected(session[c], TRUE) # Pass THEN protected(session[c], TRUE)
                 ELSE IF SelectProduct(products, id) = {} THEN NotFound
                 ELSE Render("product_form.html"))

(* POST /products/edit/<id> up to and including datetime.utcnow() *)
edit_product_post(c, id, form) ==
    /\ req[c] = Idle
    /\ IF protected(session[c], TRUE) # Pass THEN Answer(c, "POST /products/edit/<id>", protected(session[c], TRUE))
       ELSE IF SelectProduct(products, id) = {} THEN Answer(c, "POST /products/edit/<id>", NotFound)
       ELSE IF Validate(form, "edit_product") # Pass
       THEN Answer(c, "POST /products/edit/<id>", Validate(form, "edit_product"))
       ELSE /\ clock < MaxClock
            /\ clock' = clock + 1
            /\ req' = [req EXCEPT ![c] =
                         [route |-> "edit_product", product_id |-> id,
                          name |-> strip(form.name), description |-> strip(form.description),
                          price_f |-> float(strip(form.price)).val,
                          stock_i |-> int(strip(form.stock)).val, now |-> clock + 1]]
            /\ resp' = Sent(c, "POST /products/edit/<id>", Pending)
            /\ UNCHANGED <<users, userSeq, products, productSeq, session>>

(* The UPDATE, the commit and the flash of POST /products/edit/<id> *)
edit_product_update(c) ==
    /\ req[c].route = "edit_product"
    /\ products' = UpdateProduct(products, req[c].product_id, req[c].name, req[c].description,
                                 req[c].price_f, req[c].stock_i, req[c].now)
    /\ resp' = Sent(c, "POST /products/edit/<id>", ProductUpdated)
    /\ req' = [req EXCEPT ![c] = Idle]
    /\ UNCHANGED <<users, userSeq, productSeq, clock, session>>

delete_product(c, id) ==
    /\ req[c] = Idle
    /\ IF protected(session[c], TRUE) # Pass THEN Answer(c, "POST /products/delete/<id>", protected(session[c], TRUE))
       ELSE /\ products' = DeleteProduct(products, id)
            /\ resp' = Sent(c, "POST /products/delete/<id>", ProductDeleted)
            /\ UNCHANGED <<users, userSeq, productSeq, clock, session, req>>

-----------------------------------------------------------------------------
Reads(c) ==
    \/ root(c)
    \/ register_get(c)
    \/ login_get(c)
    \/ products_list(c)
    \/ \E id \in ProductIds : product_detail(c, id)
    \/ add_product_get(c)
    \/ \E id \in ProductIds : edit_product_get(c, id)

Next ==
    \/ \E salt \in Salts : init_db(salt)
    \/ \E c \in Clients : Reads(c)
    \/ \E c \in Clients, e \in Emails, p \in NewPasswords : register_post(c, e, p)
    \/ \E c \in Clients, salt \in Salts : register_insert(c, salt)
    \/ \E c \in Clients, e \in Emails, p \in Passwords : login_post(c, e, p)
    \/ \E c \in Clients : logout(c)
    \/ \E c \in Clients, form \in AddForms : add_product_post(c, form)
    \/ \E c \in Clients, id \in ProductIds, form \in EditForms : edit_product_post(c, id, form)
    \/ \E c \in Clients : edit_product_update(c)
    \/ \E c \in Clients, id \in ProductIds : delete_product(c, id)

Init == InitWith(Salts)

Spec == Init /\ [][Next]_vars

(* Registration and login with more credentials; the catalog is only read *)
NextAuth ==
    \/ \E salt \in AuthSalts : init_db(salt)
    \/ \E c \in Clients : Reads(c)
    \/ \E c \in Clients, e \in AuthEmails, p \in AuthNewPasswords : register_post(c, e, p)
    \/ \E c \in Clients, salt \in AuthSalts : register_insert(c, salt)
    \/ \E c \in Clients, e \in AuthEmails, p \in AuthPasswords : login_post(c, e, p)
    \/ \E c \in Clients : logout(c)

InitAuth == InitWith(AuthSalts)

SpecAuth == InitAuth /\ [][NextAuth]_vars
-----------------------------------------------------------------------------
(* The claims.  Those about logins and registrations are checked under     *)
(* SpecAuth, the others under Spec.                                         *)

Actor == resp'.client
ActorSession == session[resp'.client]
IsRequestStep == resp'.client \in Clients

(* C1: the Products table changes only in a request to an admin route whose *)
(* session is present and has role admin; a request to an admin route with  *)
(* no session or another role ends in the redirect of its guard and leaves  *)
(* the catalog as it was.                                                   *)
C1_CatalogWritesOnlyByAdmin ==
    [][ /\ (products' # products \/ productSeq' # productSeq)
            => /\ resp'.route \in AdminRoutes
               /\ "user" \in DOMAIN ActorSession
               /\ IsAdmin(ActorSession)
        /\ (IsRequestStep /\ resp'.route \in AdminRoutes /\ ~IsAdmin(ActorSession))
            => /\ resp' \in { Sent(Actor, resp'.route, Unauthorized),
                              Sent(Actor, resp'.route, Forbidden) }
               /\ products' = products
               /\ productSeq' = productSeq ]_vars

(* A registered user without the admin role has posted to /products/add,    *)
(* was sent away, and the catalog still holds the administrator's product.  *)
C1_Witness ==
    /\ resp.route = "POST /products/add"
    /\ resp.flash = Forbidden.flash
    /\ DOMAIN products # {}

(* C3: every stored product has price >= 0 and stock >= 0. *)
C3_NonNegativePriceAndStock ==
    \A id \in DOMAIN products : products[id].price >= 0 /\ products[id].stock >= 0

(* C5: every edit that reports success moves the updated_at of its product  *)
(* strictly forward.                                                        *)
C5_UpdatedAtStrictlyForward ==
    [][ \A c \in Clients :
          (req[c].route = "edit_product" /\ edit_product_update(c)
             /\ req[c].product_id \in DOMAIN products
             /\ req[c].product_id \in DOMAIN products')
          => products'[req[c].product_id].updated_at > products[req[c].product_id].updated_at ]_vars

(* C6: whenever an edit reports "Product updated.", the product exists in   *)
(* the catalog and holds the submitted fields at the moment of the write.   *)
C6_UpdatedMeansStored ==
    [][ \A c \in Clients :
          (req[c].route = "edit_product" /\ edit_product_update(c)
             /\ resp' = Sent(c, "POST /products/edit/<id>", ProductUpdated))
          => /\ req[c].product_id \in DOMAIN products'
             /\ products'[req[c].product_id].name = req[c].name
             /\ products'[req[c].product_id].price = req[c].price_f
             /\ products'[req[c].product_id].stock = req[c].stock_i ]_vars

(* C7: no request ends in an unhandled exception. *)
C7_NoUnhandledException == resp.kind # "error"

(* C8: a request without a session to a protected route is redirected to    *)
(* /login (never to the forbidden redirect) and changes neither table nor   *)
(* the session.                                                             *)
C8_NoSessionGoesToLogin ==
    [][ (IsRequestStep /\ resp'.route \in ProtectedRoutes /\ "user" \notin DOMAIN ActorSession)
        => /\ resp' = Sent(Actor, resp'.route, Unauthorized)
           /\ UNCHANGED <<users, userSeq, products, productSeq, clock, session, req>> ]_vars

(* A client without a session has posted a delete of an existing product.  *)
C8_Witness ==
    /\ resp.client \in Clients
    /\ resp.route = "POST /products/delete/<id>"
    /\ resp = Sent(resp.client, resp.route, Unauthorized)
    /\ session[resp.client] = EmptySession
    /\ DOMAIN products = ProductIds

(* C9: a delete by an admin always answers "Product deleted.", removes the  *)
(* row of that id and no other, changes no other row, leaves the catalog    *)
(* unchanged when the id is unknown, and deleting the id again changes      *)
(* nothing more.                                                            *)
C9_DeleteIdempotent ==
    [][ \A c \in Clients, id \in ProductIds :
          (Actor = c /\ resp'.route = "POST /products/delete/<id>" /\ IsAdmin(session[c])
             /\ delete_product(c, id))
          => /\ resp' = Sent(c, "POST /products/delete/<id>", ProductDeleted)
             /\ DOMAIN products' = DOMAIN products \ {id}
             /\ \A i \in DOMAIN products' : products'[i] = products[i]
             /\ (id \notin DOMAIN products => products' = products)
             /\ DeleteProduct(products', id) = products' ]_vars

(* An admin's delete has just answered while product 2 is stored and        *)
(* product 1, created before it, is gone.                                   *)
C9_Witness ==
    /\ resp.flash = ProductDeleted.flash
    /\ productSeq = MaxProducts
    /\ DOMAIN products = {productSeq}

(* C10: user rows are never updated or deleted, every row with role admin   *)
(* is the seeded administrator's, a session gets role admin only by a       *)
(* login with the administrator's email and password, and a repeated        *)
(* init_db adds and changes no user.                                        *)
IsSeededAdmin(u) ==
    u.email = admin_email /\ u.role = "admin" /\ u.password = Hash(u.password.salt, admin_pwd)

C10_NoPrivilegeEscalation ==
    [][ /\ users \subseteq users'
        /\ \A u \in users' : u.role = "admin" => (IsSeededAdmin(u) /\ u \in users)
        /\ \A u \in users' \ users : u.role = "user"
        /\ \A c \in Clients :
             (IsAdmin(session'[c]) /\ session'[c] # session[c])
             => /\ session'[c]["user"] = admin_email
                /\ \E e \in Emails, p \in Passwords :
                     /\ login_post(c, e, p)
                     /\ normalize_email(e) = admin_email
                     /\ normalize_password(p) = admin_pwd
        /\ \A salt \in Salts : init_db(salt) => (users' = users /\ userSeq' = userSeq) ]_vars

(* One client holds an admin session while a registered user is logged in. *)
C10_Witness ==
    /\ \E c \in Clients : IsAdmin(session[c])
    /\ \E c \in Clients : session_get(session[c], "role") = "user"
    /\ \E u \in users : u.role = "user"

-----------------------------------------------------------------------------
(* Claims checked under SpecAuth *)

Verifies(u, password) == u.password = Hash(u.password.salt, password)

(* What a POST /login of (e, p) by a client without a session has to do,   *)
(* when `password` is the password that is verified.                        *)
LoginOutcome(c, e, password) ==
    LET matching == {u \in users : u.email = lower(strip(e)) /\ Verifies(u, password)}
    IN  /\ ("user" \in DOMAIN session'[c]) <=> (matching # {})
        /\ matching # {} =>
              \E u \in matching :
                 /\ DOMAIN session'[c] = {"user", "role"}
                 /\ session'[c]["user"] = u.email
                 /\ session'[c]["role"] = u.role
        /\ matching = {} =>
              /\ resp' = Sent(c, "POST /login", InvalidCredentials)
              /\ session'[c] = EmptySession

IsLoginPost(c, e, p) ==
    /\ Actor = c
    /\ resp'.route = "POST /login"
    /\ "user" \notin DOMAIN session[c]
    /\ login_post(c, e, p)

(* C2 as stated: the session is established if and only if the normalized  *)
(* email is stored and the submitted password verifies.                     *)
C2_LoginIffSubmittedPasswordVerifies ==
    [][ \A c \in Clients, e \in AuthEmails, p \in AuthPasswords :
          IsLoginPost(c, e, p) => LoginOutcome(c, e, p) ]_vars

(* C2 as amended: ... and the trimmed password verifies; the session then   *)
(* carries that user's stored email and role, and otherwise the login       *)
(* answers InvalidCredentials and the client still has no session.          *)
C2_LoginIffTrimmedPasswordVerifies ==
    [][ \A c \in Clients, e \in AuthEmails, p \in AuthPasswords :
          IsLoginPost(c, e, p) => LoginOutcome(c, e, strip(p)) ]_vars

(* A registered user has just logged in and holds a session of role user.  *)
C2_Witness ==
    /\ resp.route = "POST /login"
    /\ resp.flash = Welcome.flash
    /\ session_get(session[resp.client], "role") = "user"

(* C4: a register of a stored normalized email answers DuplicateEmail and   *)
(* leaves Users_Table unchanged; no step removes or changes a user row and  *)
(* no two rows share an email.                                              *)
C4_DuplicateEmailRejected ==
    [][ /\ \A c \in Clients, e \in AuthEmails, p \in AuthNewPasswords :
             (Actor = c /\ resp'.route = "POST /register" /\ req[c] = Idle
                /\ "user" \notin DOMAIN session[c]
                /\ lower(strip(e)) # <<>> /\ strip(p) # <<>>
                /\ (\E u \in users : u.email = lower(strip(e)))
                /\ register_post(c, e, p))
             => (resp' = Sent(c, "POST /register", DuplicateEmail) /\ users' = users)
        /\ users \subseteq users'
        /\ \A u, v \in users' : u.email = v.email => u = v ]_vars

(* A registration of an email that another client registered before has    *)
(* just been refused.                                                       *)
C4_Witness ==
    /\ resp.route = "POST /register"
    /\ resp.flash = DuplicateEmail.flash
    /\ \E u \in users : u.role = "user"
====
